---------------------------- MODULE Spec2Model ----------------------------
(***************************************************************************)
(* Model of the PCA stage of the repository: class AnalyseACP of           *)
(* src/python/pca_analysis.py (ajuster, transformer, valeurs_propres,      *)
(* loadings, communalites, critere_kaiser, seuil_variance, interpreter)    *)
(* and standardiser_acp of src/python/data_preparation.py.                 *)
(*                                                                         *)
(* Numbers.  The code computes in float64.  The model computes in exact    *)
(* rationals <<num, den>> (den > 0, lowest terms); <<0, 0>> is NaN.        *)
(* A quantity that carries a square root (an entry of a unit component, a  *)
(* loading, a score) is stored as its signed square x*|x|, which is        *)
(* rational for the matrices of the catalogue, keeps the sign, and orders  *)
(* absolute values exactly as |x| does.                                    *)
(***************************************************************************)
EXTENDS Integers, Sequences, FiniteSets, TLC

(***************************************************************************)
(* Bounds of the model.                                                    *)
(***************************************************************************)
\* Largest coefficient of an integer direction vector tried as eigenvector.
MaxDir == 2
\* Largest n_composantes given to the constructor (None is always tried).
MaxComposantes == 3
\* Largest n_top given to interpreter.
MaxTop == 4

(***************************************************************************)
(* Exact arithmetic.                                                       *)
(***************************************************************************)
Abs(x) == IF x < 0 THEN -x ELSE x

Sign(x) == IF x < 0 THEN -1 ELSE IF x > 0 THEN 1 ELSE 0

\* Euclid's algorithm.
RECURSIVE GCD(_, _)
GCD(a, b) == IF b = 0 THEN a ELSE GCD(b, a % b)

NaN == <<0, 0>>

IsNaN(x) == x[2] = 0

\* n/d divided through by g, with the sign carried by the numerator.
Lowest(n, d, g) ==
    IF d < 0 THEN <<(-n) \div g, (-d) \div g>> ELSE <<n \div g, d \div g>>

Rat(n, d) == IF d = 0 THEN NaN ELSE Lowest(n, d, GCD(Abs(n), Abs(d)))

Int2R(n) == <<n, 1>>

Zero == <<0, 1>>

One == <<1, 1>>

RAdd(x, y) ==
    IF IsNaN(x) \/ IsNaN(y) THEN NaN
    ELSE Rat(x[1] * y[2] + y[1] * x[2], x[2] * y[2])

RSub(x, y) ==
    IF IsNaN(x) \/ IsNaN(y) THEN NaN
    ELSE Rat(x[1] * y[2] - y[1] * x[2], x[2] * y[2])

RMul(x, y) ==
    IF IsNaN(x) \/ IsNaN(y) THEN NaN
    ELSE Rat(x[1] * y[1], x[2] * y[2])

\* numpy division: 0/0 is NaN (a RuntimeWarning, not an exception).  x/0 with
\* x # 0 (inf) does not arise for the matrices of the catalogue.
RDiv(x, y) ==
    IF IsNaN(x) \/ IsNaN(y) \/ y[1] = 0 THEN NaN
    ELSE Rat(x[1] * y[2], x[2] * y[1])

RAbs(x) == IF IsNaN(x) THEN NaN ELSE <<Abs(x[1]), x[2]>>

\* IEEE comparisons: every comparison with NaN is false.
RLt(x, y) == ~IsNaN(x) /\ ~IsNaN(y) /\ x[1] * y[2] < y[1] * x[2]

RGt(x, y) == RLt(y, x)

RGe(x, y) == ~IsNaN(x) /\ ~IsNaN(y) /\ x[1] * y[2] >= y[1] * x[2]

RECURSIVE RSumTo(_, _)
RSumTo(s, n) == IF n = 0 THEN Zero ELSE RAdd(RSumTo(s, n - 1), s[n])

RSum(s) == RSumTo(s, Len(s))

\* x * |x|: the signed square that stands for a value carrying a square root.
SignedSq(x) == RMul(x, RAbs(x))

RECURSIVE Pow10(_)
Pow10(k) == IF k = 0 THEN 1 ELSE 10 * Pow10(k - 1)

\* The quotient q of a division of remainder r2 / 2 by den, rounded half to even.
HalfEven(q, r2, den) ==
    IF r2 > den \/ (r2 = den /\ q % 2 = 1) THEN q + 1 ELSE q

\* sgn * num / den in units of 1 / p, rounded half to even.
RoundUnits(sgn, num, den, p) ==
    Rat(sgn * HalfEven(num \div den, 2 * (num % den), den), p)

\* np.round(x, decimals): round half to even at the given decimal; NaN stays NaN.
NpRound(x, decimals) ==
    IF IsNaN(x) THEN NaN
    ELSE RoundUnits(Sign(x[1]), Abs(x[1]) * Pow10(decimals), x[2], Pow10(decimals))

\* The integer square root, and the square root of a rational whose numerator
\* and denominator are perfect squares (all the catalogue needs).
ISqrt(n) == CHOOSE s \in 0..n : s * s <= n /\ (s + 1) * (s + 1) > n

RSqrt(x) == IF IsNaN(x) THEN NaN ELSE Rat(ISqrt(x[1]), ISqrt(x[2]))

IsSquare(x) == ~IsNaN(x) /\ x[1] >= 0 /\ ISqrt(x[1]) * ISqrt(x[1]) = x[1]
                         /\ ISqrt(x[2]) * ISqrt(x[2]) = x[2]

Min(a, b) == IF a < b THEN a ELSE b

\* TLC keeps a function expression unevaluated and recomputes every f[x];
\* comparing it forces it into a table once.  Tabulate(f) is f.
Tabulate(f) == IF f = f THEN f ELSE f

(***************************************************************************)
(* Data frames.  A matrix is [cols |-> names, rows |-> sequence of rows],  *)
(* each row a sequence of numbers, one per column.                         *)
(***************************************************************************)
NRows(X) == Len(X.rows)

NCols(X) == Len(X.cols)

Col(X, j) == [i \in 1..NRows(X) |-> X.rows[i][j]]

\* A frame of the integers `ints` divided by `unit`.
Frame(cols, unit, ints) ==
    [cols |-> cols,
     rows |-> [i \in 1..Len(ints) |->
                 [j \in 1..Len(cols) |-> Rat(ints[i][j], unit)]]]

IsFinite(X) == \A i \in 1..NRows(X) : \A j \in 1..NCols(X) : ~IsNaN(X.rows[i][j])

AB == <<"A", "B">>

ABC == <<"A", "B", "C">>

\* Three uncorrelated variables with variances 2.4, 0.4 and 0.2.
M3 == Frame(ABC, 2, << <<2, 2, 1>>, <<2, -2, 1>>, <<2, 0, -1>>,
                       <<2, 0, -1>>, <<-4, 0, 0>>, <<-4, 0, 0>> >>)

\* Two uncorrelated variables with variances 1 and 3.
M4 == Frame(AB, 1, << <<1, 1>>, <<-1, 1>>, <<0, -2>> >>)

\* Three variables whose principal axes are (1,-2,0), (2,1,0) and (0,0,1).
M5 == Frame(ABC, 1, << <<4, -3, 1>>, <<0, -5, -1>>, <<0, 5, -1>>, <<-4, 3, 1>> >>)

\* No observation, one observation, and a missing value.
E0 == [cols |-> AB, rows |-> << >>]

E1 == Frame(AB, 1, << <<1, 2>> >>)

ENaN == [cols |-> AB, rows |-> << <<Int2R(1), NaN>>, <<Int2R(-1), Int2R(1)>> >>]

Catalogue == {M3, M4, M5, E0, E1, ENaN}

ABCDEF == <<"A", "B", "C", "D", "E", "F">>

\* Six uncorrelated variables, of variances 288/7, 200/7, 128/7, 72/7, 32/7
\* and 8/7: more components than interpreter goes through.
M6 == Frame(ABCDEF, 1, <<
    <<6, 5, 4, 3, 2, 1>>,
    <<-6, 5, -4, 3, -2, 1>>,
    <<6, -5, -4, 3, 2, -1>>,
    <<-6, -5, 4, 3, -2, -1>>,
    <<6, 5, 4, -3, -2, -1>>,
    <<-6, 5, -4, -3, 2, -1>>,
    <<6, -5, -4, -3, -2, 1>>,
    <<-6, -5, 4, -3, 2, 1>> >>)

Grandes == {M6}

\* Raw frames (numeric columns; the Date column is the row number).
\* R1 standardizes to two variables of correlation 1/2, R2 to two perfectly
\* correlated variables, R3 to two perfectly anti-correlated ones.
R1 == Frame(AB, 1, << <<10, 7>>, <<10, 7>>, <<10, 7>>, <<10, 1>>,
                      <<0, 7>>, <<0, 1>>, <<0, 1>>, <<0, 1>> >>)

R2 == Frame(AB, 1, << <<0, 3>>, <<2, 5>> >>)

R3 == Frame(AB, 1, << <<0, 5>>, <<0, 5>>, <<2, 1>>, <<2, 1>> >>)

\* A constant column.
R4 == Frame(AB, 1, << <<1, 0>>, <<1, 2>> >>)

RawCatalogue == {R1, R2, R3, R4}

(***************************************************************************)
(* sklearn.preprocessing.StandardScaler().fit_transform, as called by      *)
(* standardiser_acp: the mean and the POPULATION variance (ddof = 0) of    *)
(* each column; a column of variance 0 is scaled by 1.                     *)
(***************************************************************************)
ColMean(X, j) == RDiv(RSum(Col(X, j)), Int2R(NRows(X)))

\* The mean of the squared deviations of column c from m.
MeanSqDev(c, m) ==
    RDiv(RSum([i \in 1..Len(c) |-> RMul(RSub(c[i], m), RSub(c[i], m))]),
         Int2R(Len(c)))

PopVar(X, j) == MeanSqDev(Col(X, j), ColMean(X, j))

\* _handle_zeros_in_scale: a scale of 0 becomes 1.
ScaleOf(v) == IF v = Zero THEN One ELSE RSqrt(v)

ScalerScale(X, j) == ScaleOf(PopVar(X, j))

FitTransform(X) ==
    [cols |-> X.cols,
     rows |-> Tabulate([i \in 1..NRows(X) |->
                 [j \in 1..NCols(X) |->
                    RDiv(RSub(X.rows[i][j], ColMean(X, j)), ScalerScale(X, j))]])]

\* The scaler is exact on the raw catalogue (every variance is a square).
RawCatalogueExact ==
    \A X \in RawCatalogue : \A j \in 1..NCols(X) : IsSquare(PopVar(X, j))

(***************************************************************************)
(* sklearn.decomposition.PCA(n_components).fit(X), full SVD solver (the    *)
(* solver 'auto' picks for matrices of this size).  A right singular       *)
(* vector is held as a primitive integer direction d and stands for the    *)
(* unit vector d / |d|.  The singular vectors of the centred matrix are    *)
(* the eigenvectors of its scatter matrix Xc^T Xc; they are found by       *)
(* search among the directions with coefficients in -MaxDir..MaxDir.       *)
(***************************************************************************)
\* n_composantes = None (the constructor's default).
None == 0

Centered(X) ==
    Tabulate([i \in 1..NRows(X) |->
                [j \in 1..NCols(X) |-> RSub(X.rows[i][j], ColMean(X, j))]])

\* Xc^T Xc for a matrix Xc of n rows and N columns.
Gram(Xc, n, N) ==
    Tabulate([j \in 1..N |-> [k \in 1..N |->
        RSum([i \in 1..n |-> RMul(Xc[i][j], Xc[i][k])])]])

Scatter(X) == Gram(Centered(X), NRows(X), NCols(X))

RECURSIVE GCDTo(_, _)
GCDTo(d, n) == IF n = 0 THEN 0 ELSE GCD(Abs(d[n]), GCDTo(d, n - 1))

GCDSeq(d) == GCDTo(d, Len(d))

FirstNonZero(d) ==
    IF \A j \in 1..Len(d) : d[j] = 0 THEN 0
    ELSE d[CHOOSE j \in 1..Len(d) : d[j] # 0 /\ \A i \in 1..(j - 1) : d[i] = 0]

Directions(N) ==
    {d \in [1..N -> (-MaxDir)..MaxDir] : FirstNonZero(d) > 0 /\ GCDSeq(d) = 1}

\* Entry j of the product C d.
MatVecRow(C, d, j) == RSum([k \in 1..Len(d) |-> RMul(C[j][k], Int2R(d[k]))])

MatVec(C, d) == Tabulate([j \in 1..Len(C) |-> MatVecRow(C, d, j)])

Norm2(d) == RSum([j \in 1..Len(d) |-> Int2R(d[j] * d[j])])[1]

\* C d and d are parallel.
IsEigen(C, d) ==
    \A j \in 1..Len(d) : \A k \in (j + 1)..Len(d) :
        RMul(MatVecRow(C, d, j), Int2R(d[k])) =
            RMul(MatVecRow(C, d, k), Int2R(d[j]))

Dot(u, d) == RSum([j \in 1..Len(d) |-> RMul(u[j], Int2R(d[j]))])

\* The squared singular value of direction d, from the scatter matrix C:
\* |Xc d|^2 / |d|^2.
SingularSq(C, d) == RDiv(Dot(MatVec(C, d), d), Int2R(Norm2(d)))

Best(sv, S) == CHOOSE d \in S : \A e \in S : RGe(sv[d], sv[e])

\* The directions of S by descending squared singular value.
RECURSIVE SortDesc(_, _)
SortDesc(sv, S) ==
    IF S = {} THEN << >>
    ELSE <<Best(sv, S)>> \o SortDesc(sv, S \ {Best(sv, S)})

UnitVector(N, k) == [j \in 1..N |-> IF j = k THEN 1 ELSE 0]

IsZeroMatrix(C) == \A j, k \in 1..Len(C) : C[j][k] = Zero

\* numpy.linalg.svd(Xc, full_matrices=False): the min(n, N) right singular
\* vectors by descending singular value, each up to its sign.  For the zero
\* matrix (a single observation) LAPACK returns the identity.
EigenDirections(C, N) == {d \in Directions(N) : IsEigen(C, d)}

SortedEigen(C, E) == SortDesc(Tabulate([d \in E |-> SingularSq(C, d)]), E)

\* The first r right singular vectors of a matrix of scatter C.
SvdOf(C, r, N) ==
    IF IsZeroMatrix(C) THEN [k \in 1..r |-> UnitVector(N, k)]
    ELSE SubSeq(SortedEigen(C, EigenDirections(C, N)), 1, r)

SvdDirections(X) == SvdOf(Scatter(X), Min(NRows(X), NCols(X)), NCols(X))

\* The position of the first entry of largest absolute value (numpy argmax).
ArgMaxAbs(u) ==
    CHOOSE i \in 1..Len(u) :
        /\ \A j \in 1..Len(u) : RGe(RAbs(u[i]), RAbs(u[j]))
        /\ \A j \in 1..(i - 1) : RLt(RAbs(u[j]), RAbs(u[i]))

\* The column of U of direction d, up to the positive factor 1/(sigma |d|).
UColumn(X, d) == MatVec(Centered(X), d)

Negate(d) == [j \in 1..Len(d) |-> -d[j]]

\* sklearn.utils.extmath.svd_flip.  Before scikit-learn 1.5 PCA decides the
\* sign on U (the entry of largest magnitude of each column of U is made
\* positive); from 1.5 on it decides on V (each row of Vt).  For a zero
\* singular value the column of U is whatever LAPACK completed the basis
\* with, so its sign is the build's.
\* The sign decided on the column u of U.
FlipOnU(u, d, bld) ==
    IF \A i \in 1..Len(u) : u[i] = Zero
    THEN (IF bld.nullFlip THEN Negate(d) ELSE d)
    ELSE (IF u[ArgMaxAbs(u)][1] < 0 THEN Negate(d) ELSE d)

\* The sign decided on the row d of Vt.
FlipOnV(d) ==
    IF d[ArgMaxAbs([j \in 1..Len(d) |-> Int2R(d[j])])] < 0 THEN Negate(d) ELSE d

SvdFlip(X, d, bld) ==
    IF bld.uBased THEN FlipOnU(UColumn(X, d), d, bld) ELSE FlipOnV(d)

\* check_array and the n_components check of PCA._fit_full: ValueError.
FitRaises(X, n_components) ==
    \/ NRows(X) = 0
    \/ ~IsFinite(X)
    \/ (n_components # None /\ n_components > Min(NRows(X), NCols(X)))

Unfitted == [etat |-> "unfitted"]

\* The fitted estimator.  explained_variance_ = S^2 / (n_samples - 1) (0/0 =
\* NaN for a single observation); the ratio is taken over the total variance
\* of all min(n, N) components, then both are cut to n_components.
ExplainedVariance(C, dirs, n) ==
    [k \in 1..Len(dirs) |-> RDiv(SingularSq(C, dirs[k]), Int2R(n - 1))]

\* The attributes fit stores, from the singular vectors dirs, the variances ev
\* of all of them, their sum, and the number K of components kept.
Estimator(X, bld, dirs, ev, total, K) ==
    [etat                      |-> "fitted",
     components_               |-> [k \in 1..K |-> SvdFlip(X, dirs[k], bld)],
     explained_variance_       |-> [k \in 1..K |-> ev[k]],
     explained_variance_ratio_ |-> [k \in 1..K |-> RDiv(ev[k], total)],
     mean_                     |-> [j \in 1..NCols(X) |-> ColMean(X, j)],
     n_components_             |-> K,
     n_features_in_            |-> NCols(X),
     feature_names_in_         |-> X.cols]

FitVariances(X, n_components, bld, dirs, ev) ==
    Estimator(X, bld, dirs, ev, RSum(ev),
              IF n_components = None THEN Len(dirs) ELSE n_components)

FitDirections(X, n_components, bld, dirs) ==
    FitVariances(X, n_components, bld, dirs,
                 ExplainedVariance(Scatter(X), dirs, NRows(X)))

PCAFit(X, n_components, bld, dirs) ==
    IF FitRaises(X, n_components) THEN Unfitted
    ELSE FitDirections(X, n_components, bld, dirs)

(***************************************************************************)
(* standardiser_acp: the numeric columns scaled by StandardScaler, written *)
(* to donnees_acp.csv, whose numeric columns executer_acp reads back and   *)
(* hands to the fit.                                                       *)
(***************************************************************************)
StandardiserAcp(df) == FitTransform(df)

Standardisees == {StandardiserAcp(df) : df \in RawCatalogue}

\* The matrices a caller hands to ajuster and transformer.
Entrees == Catalogue \cup Standardisees

Builds == {[uBased |-> FALSE, nullFlip |-> FALSE],
           [uBased |-> TRUE,  nullFlip |-> FALSE],
           [uBased |-> TRUE,  nullFlip |-> TRUE]}

NComposantes == {None} \cup 1..MaxComposantes

\* Every matrix handed to ajuster or transformer.
Matrices == Entrees \cup Grandes

\* The singular vectors of each matrix, computed once.
SvdTable ==
    Tabulate([X \in Matrices |->
        IF FitRaises(X, None) THEN << >> ELSE SvdDirections(X)])

\* self.pca after PCA(n_components) is created and fit(X) has run or raised.
FitTable ==
    [X \in Matrices |-> [nc \in NComposantes |-> [b \in Builds |->
        PCAFit(X, nc, b, SvdTable[X])]]]

\* Every fitted estimator an AnalyseACP object can hold.
Ajustes ==
    {FitTable[X][nc][b] : X \in Matrices, nc \in NComposantes, b \in Builds}
        \ {Unfitted}

(***************************************************************************)
(* The tables AnalyseACP derives from the fitted estimator.                *)
(***************************************************************************)
CP(k) == <<"CP", k>>

\* One entry of components_.T * sqrt(explained_variance_), as a signed square:
\* sign(d_j) d_j^2 / |d|^2 * lambda.
Loading(d, j, lambda) == RMul(Rat(Sign(d[j]) * d[j] * d[j], Norm2(d)), lambda)

\* components_.T * np.sqrt(explained_variance_), computed once per estimator.
LoadingsValues ==
    Tabulate([p \in Ajustes |->
        [j \in 1..p.n_features_in_ |-> [k \in 1..p.n_components_ |->
            Loading(p.components_[k], j, p.explained_variance_[k])]]])

\* loadings(): the N x K frame indexed by noms_variables.
LoadingsFrame(p, noms) ==
    [index   |-> noms,
     columns |-> [k \in 1..p.n_components_ |-> CP(k)],
     values  |-> LoadingsValues[p]]

\* Communalities that take the first column of L only.
CommunalitesFramePremiere(L) ==
    [j \in 1..Len(L.index) |->
        [Variable    |-> L.index[j],
         Communalite |-> NpRound(RAbs(L.values[j][1]), 4)]]

\* communalites(): (L ** 2).sum(axis=1) over every column of L, rounded.
CommunalitesFrame(L) ==
    [j \in 1..Len(L.index) |->
        [Variable    |-> L.index[j],
         Communalite |-> NpRound(RSum([k \in 1..Len(L.columns) |->
                                         RAbs(L.values[j][k])]), 4)]]

\* np.cumsum
CumSum(s) == [k \in 1..Len(s) |-> RSum(SubSeq(s, 1, k))]

Cent == Int2R(100)

\* valeurs_propres(): eigenvalue, share and cumulative share per component.
ValeursPropresRows(ev, ratio, cumul) ==
    [k \in 1..Len(ev) |->
        [Composante    |-> CP(k),
         Valeur_Propre |-> NpRound(ev[k], 4),
         Variance_pct  |-> NpRound(RMul(ratio[k], Cent), 2),
         Cumul_pct     |-> NpRound(RMul(cumul[k], Cent), 2)]]

ValeursPropresFrame(p) ==
    ValeursPropresRows(p.explained_variance_, p.explained_variance_ratio_,
                       CumSum(p.explained_variance_ratio_))

\* A Kaiser count that also takes the eigenvalues equal to 1.
KaiserCountInclusive(ev) == Cardinality({k \in 1..Len(ev) : RGe(ev[k], One)})

\* critere_kaiser(): int(np.sum(explained_variance_ > 1)).
KaiserCount(ev) == Cardinality({k \in 1..Len(ev) : RGt(ev[k], One)})

\* seuil_variance(): int(np.argmax(cumul >= seuil)) + 1; argmax of a boolean
\* array is the first True, and 0 when there is none.
ArgMaxBool(b) ==
    IF \E k \in 1..Len(b) : b[k]
    THEN (CHOOSE k \in 1..Len(b) : b[k] /\ \A l \in 1..(k - 1) : ~b[l]) - 1
    ELSE 0

\* cumul > seuil: a comparison that leaves the boundary out.
AtLeastStrict(cumul, seuil) == [k \in 1..Len(cumul) |-> RGt(cumul[k], seuil)]

\* cumul >= seuil, element by element.
AtLeast(cumul, seuil) == [k \in 1..Len(cumul) |-> RGe(cumul[k], seuil)]

SeuilCount(ratio, seuil) == ArgMaxBool(AtLeast(CumSum(ratio), seuil)) + 1

\* transformer(): (X - mean_) . components_^T, each score as a signed square.
\* (row - mean) . d / |d|, as a signed square.
ScoreOn(row, mean, d) ==
    RDiv(SignedSq(RSum([j \in 1..Len(d) |-> RMul(RSub(row[j], mean[j]), Int2R(d[j]))])),
         Int2R(Norm2(d)))

Score(p, row, k) == ScoreOn(row, p.mean_, p.components_[k])

\* self.pca.transform(X), computed once per estimator and matrix.
ScoresValues ==
    Tabulate([p \in Ajustes |-> [X \in Matrices |->
        IF NCols(X) # p.n_features_in_ THEN << >>
        ELSE [i \in 1..NRows(X) |-> [k \in 1..p.n_components_ |->
                Score(p, X.rows[i], k)]]]])

ScoresFrame(p, X) ==
    [columns |-> [k \in 1..p.n_components_ |-> CP(k)],
     values  |-> ScoresValues[p][X]]

\* A validation that does not compare the number of columns.
TransformRaisesSansLargeur(p, X) == NRows(X) = 0 \/ ~IsFinite(X)

\* PCA.transform: validate_data(reset=False) raises ValueError.  (Frames of
\* the same width carry the same column names here.)
TransformRaises(p, X) ==
    \/ NRows(X) = 0
    \/ ~IsFinite(X)
    \/ NCols(X) # p.n_features_in_

(***************************************************************************)
(* interpreter: Series.abs().sort_values(ascending=False).head(n_top).     *)
(* sort_values sorts with kind='quicksort', which is not stable: entries   *)
(* of equal absolute value come out in an order the numpy build decides.   *)
(* NaN entries go last, in index order (na_position='last').               *)
(***************************************************************************)
\* The cap of interpreter's loop: L.columns[:5].
MaxInterpretees == 5

\* L[cp].abs() for every column of the values v of L.
AbsColumnsToutes(v) ==
    [i \in 1..(IF Len(v) = 0 THEN 0 ELSE Len(v[1])) |->
        [j \in 1..Len(v) |-> RAbs(v[j][i])]]

\* L[cp].abs() for the first MaxInterpretees columns of the values v of L.
AbsColumns(v) ==
    [i \in 1..Min(IF Len(v) = 0 THEN 0 ELSE Len(v[1]), MaxInterpretees) |->
        [j \in 1..Len(v) |-> RAbs(v[j][i])]]

\* The positions not yet taken by the head h of an order of a.
Restants(a, h) == {j \in 1..Len(a) : \A r \in 1..Len(h) : h[r] # j}

\* sort_values(ascending=False) with the default quicksort, which is not
\* stable: after the head h comes any position of largest value among those
\* left; the NaN come last, in the order of the index.
Suivants(a, R) ==
    IF \E j \in R : ~IsNaN(a[j])
    THEN {j \in R : ~IsNaN(a[j]) /\ \A i \in R : IsNaN(a[i]) \/ RGe(a[j], a[i])}
    ELSE {j \in R : \A i \in R : j <= i}

\* tri.head(n): the first n positions of the orders the sort can return.
RECURSIVE TetesDe(_, _)
TetesDe(a, n) ==
    IF n = 0 THEN {<< >>}
    ELSE UNION {{Append(h, j) : j \in Suivants(a, Restants(a, h))} :
                   h \in TetesDe(a, n - 1)}

\* One head per column, for the first c columns.
RECURSIVE TetesTo(_, _, _)
TetesTo(a, n, c) ==
    IF c = 0 THEN {<< >>}
    ELSE {Append(s, q) : s \in TetesTo(a, n, c - 1), q \in TetesDe(a[c], n)}

Tetes(L, n_top) ==
    TetesTo(AbsColumns(L.values), Min(n_top, Len(L.values)),
            Len(AbsColumns(L.values)))

\* One entry of the interpretation, given the head q the sort returned.
Interpretation(L, ratio, i, q, n_top) ==
    [cp                   |-> L.columns[i],
     variables_dominantes |-> [r \in 1..Min(n_top, Len(q)) |->
                                 <<L.index[q[r]], L.values[q[r]][i]>>],
     variance_expliquee   |-> RMul(ratio[i], Cent)]

(***************************************************************************)
(* The state: one AnalyseACP object, the build it runs on, and the last    *)
(* call with what it returned or raised.                                   *)
(***************************************************************************)
VARIABLES
    build,           \* the scikit-learn / LAPACK build (fixed)
    n_composantes,   \* self.n_composantes
    pca,             \* self.pca: None, an unfitted PCA, or a fitted one
    noms_variables,  \* self.noms_variables (<< >> is None)
    resultats,       \* self.resultats: the tables stored by key
    ajustement,      \* the last call of ajuster: its matrix and its outcome
    ret,             \* the last call: operation, argument, exception, value
    autre,           \* a second AnalyseACP object
    requetes         \* the ajuster_transformer calls running in threads

vars == <<build, n_composantes, pca, noms_variables, resultats, ajustement, ret,
          autre, requetes>>

Seuils == {Rat(1, 2), Rat(3, 4), Rat(4, 5), Rat(81, 100), One, Rat(11, 10)}

NoPCA == [etat |-> "None"]

Absent == << >>

NoValue == << >>

NoFrame == [cols |-> << >>, rows |-> << >>]

Raise(op, arg, exc) == [op |-> op, arg |-> arg, err |-> exc, val |-> NoValue]

Return(op, arg, val) == [op |-> op, arg |-> arg, err |-> "none", val |-> val]

\* The attributes __init__ gives an object.
ObjetNeuf ==
    [pca |-> NoPCA, noms_variables |-> << >>,
     resultats |-> [valeurs_propres |-> Absent, loadings |-> Absent,
                    communalites |-> Absent]]

\* __init__
Init ==
    /\ build \in Builds
    /\ n_composantes \in NComposantes
    /\ pca = NoPCA
    /\ noms_variables = << >>
    /\ resultats = [valeurs_propres |-> Absent, loadings |-> Absent,
                    communalites |-> Absent]
    /\ ajustement = [X |-> NoFrame, err |-> "jamais"]
    /\ ret = Return("__init__", NoValue, NoValue)
    /\ autre = ObjetNeuf
    /\ requetes = << >>

\* An ajuster that fits only once: it keeps an estimator already fitted.
AjusterPcaUneFois(X) ==
    IF pca.etat = "fitted" THEN pca ELSE FitTable[X][n_composantes][build]

\* What ajuster leaves in self.pca: the PCA object is created and assigned
\* before fit runs, so a fit that raises leaves an unfitted estimator.
AjusterPca(X) == FitTable[X][n_composantes][build]

\* ajuster(X)
Ajuster(X) ==
    /\ noms_variables' = X.cols
    /\ pca' = AjusterPca(X)
    /\ IF FitRaises(X, n_composantes)
       THEN /\ ajustement' = [X |-> X, err |-> "ValueError"]
            /\ ret' = Raise("ajuster", X, "ValueError")
       ELSE /\ ajustement' = [X |-> X, err |-> "none"]
            /\ ret' = Return("ajuster", X, "self")
    /\ UNCHANGED <<build, n_composantes, resultats, autre, requetes>>

\* What transformer(X) returns or raises on the estimator p.
TransformerRet(op, p, X) ==
    IF p.etat = "None" THEN Raise(op, X, "AttributeError")
    ELSE IF p.etat = "unfitted" THEN Raise(op, X, "NotFittedError")
    ELSE IF TransformRaises(p, X) THEN Raise(op, X, "ValueError")
    ELSE Return(op, X, ScoresFrame(p, X))

\* A transformer that calls fit_transform: it fits again on X.
TransformerAjuste(X) ==
    /\ noms_variables' = X.cols
    /\ pca' = AjusterPca(X)
    /\ ajustement' = [X |-> X, err |-> IF FitRaises(X, n_composantes)
                                       THEN "ValueError" ELSE "none"]
    /\ ret' = TransformerRet("transformer", pca', X)
    /\ UNCHANGED <<build, n_composantes, resultats, autre, requetes>>

\* transformer(X)
Transformer(X) ==
    /\ ret' = TransformerRet("transformer", pca, X)
    /\ UNCHANGED <<build, n_composantes, pca, noms_variables, resultats,
                   ajustement, autre, requetes>>

\* ajuster_transformer(X): ajuster, then transformer on the same matrix.
AjusterTransformer(X) ==
    /\ noms_variables' = X.cols
    /\ pca' = AjusterPca(X)
    /\ IF FitRaises(X, n_composantes)
       THEN /\ ajustement' = [X |-> X, err |-> "ValueError"]
            /\ ret' = Raise("ajuster_transformer", X, "ValueError")
       ELSE /\ ajustement' = [X |-> X, err |-> "none"]
            /\ ret' = TransformerRet("ajuster_transformer", pca', X)
    /\ UNCHANGED <<build, n_composantes, resultats, autre, requetes>>

Frame0 == <<build, n_composantes, pca, noms_variables, ajustement, autre,
            requetes>>

\* self.resultats[cle] = df; return df
Garder(op, cle, df) ==
    /\ resultats' = [resultats EXCEPT ![cle] = df]
    /\ ret' = Return(op, NoValue, df)

\* valeurs_propres()
ValeursPropres ==
    /\ IF pca.etat = "fitted"
       THEN Garder("valeurs_propres", "valeurs_propres", ValeursPropresFrame(pca))
       ELSE /\ ret' = Raise("valeurs_propres", NoValue, "AttributeError")
            /\ UNCHANGED resultats
    /\ UNCHANGED Frame0

\* A loadings that serves the stored table when there is one.
LoadingsEnCache ==
    /\ IF pca.etat = "fitted"
       THEN Garder("loadings", "loadings",
                   IF resultats.loadings # Absent THEN resultats.loadings
                   ELSE LoadingsFrame(pca, noms_variables))
       ELSE /\ ret' = Raise("loadings", NoValue, "AttributeError")
            /\ UNCHANGED resultats
    /\ UNCHANGED Frame0

\* loadings()
Loadings ==
    /\ IF pca.etat = "fitted"
       THEN Garder("loadings", "loadings", LoadingsFrame(pca, noms_variables))
       ELSE /\ ret' = Raise("loadings", NoValue, "AttributeError")
            /\ UNCHANGED resultats
    /\ UNCHANGED Frame0

\* The body of communalites(), from L = self.loadings() on.
CommunalitesDe(L, df) ==
    /\ resultats' = [resultats EXCEPT !.loadings = L, !.communalites = df]
    /\ ret' = Return("communalites", None, df)

CommunalitesSur(L) == CommunalitesDe(L, CommunalitesFrame(L))

\* communalites(): the method takes no argument; a call that passes a
\* retention count k_retained raises TypeError before the body runs.
Communalites(k_retained) ==
    /\ IF k_retained # None
       THEN /\ ret' = Raise("communalites", k_retained, "TypeError")
            /\ UNCHANGED resultats
       ELSE IF pca.etat = "fitted"
       THEN CommunalitesSur(LoadingsFrame(pca, noms_variables))
       ELSE /\ ret' = Raise("communalites", None, "AttributeError")
            /\ UNCHANGED resultats
    /\ UNCHANGED Frame0

\* critere_kaiser()
CritereKaiser ==
    /\ ret' = IF pca.etat = "fitted"
              THEN Return("critere_kaiser", NoValue,
                          KaiserCount(pca.explained_variance_))
              ELSE Raise("critere_kaiser", NoValue, "AttributeError")
    /\ UNCHANGED <<Frame0, resultats>>

\* A seuil_variance that reads the cumulated shares from valeurs_propres(),
\* which stores its table.
SeuilVarianceParTable(seuil) ==
    /\ IF pca.etat = "fitted"
       THEN /\ resultats' = [resultats EXCEPT
                                !.valeurs_propres = ValeursPropresFrame(pca)]
            /\ ret' = Return("seuil_variance", seuil,
                             SeuilCount(pca.explained_variance_ratio_, seuil))
       ELSE /\ ret' = Raise("seuil_variance", seuil, "AttributeError")
            /\ UNCHANGED resultats
    /\ UNCHANGED Frame0

\* seuil_variance(seuil)
SeuilVariance(seuil) ==
    /\ ret' = IF pca.etat = "fitted"
              THEN Return("seuil_variance", seuil,
                          SeuilCount(pca.explained_variance_ratio_, seuil))
              ELSE Raise("seuil_variance", seuil, "AttributeError")
    /\ UNCHANGED <<Frame0, resultats>>

\* The body of interpreter(), from L = self.loadings() on.
InterpreterSur(L, ratio, n_top) ==
    \E tri \in Tetes(L, n_top) :
        /\ resultats' = [resultats EXCEPT !.loadings = L]
        /\ ret' = Return("interpreter", n_top,
                      [i \in 1..Len(tri) |->
                         Interpretation(L, ratio, i, tri[i], n_top)])

\* interpreter(n_top)
Interpreter(n_top) ==
    /\ IF pca.etat = "fitted"
       THEN InterpreterSur(LoadingsFrame(pca, noms_variables),
                           pca.explained_variance_ratio_, n_top)
       ELSE /\ ret' = Raise("interpreter", n_top, "AttributeError")
            /\ UNCHANGED resultats
    /\ UNCHANGED Frame0

\* One object fitted once, as executer_acp does: AnalyseACP() and then a
\* single ajuster_transformer(X) before the tables are asked for.
Next ==
    \/ pca = NoPCA /\ \E X \in Entrees : Ajuster(X)
    \/ \E X \in Entrees : Transformer(X)
    \/ pca = NoPCA /\ \E X \in Entrees : AjusterTransformer(X)
    \/ ValeursPropres
    \/ Loadings
    \/ \E k \in NComposantes : Communalites(k)
    \/ CritereKaiser
    \/ \E seuil \in Seuils : SeuilVariance(seuil)
    \/ \E n_top \in 0..MaxTop : Interpreter(n_top)

Spec == Init /\ [][Next]_vars

\* One object fitted again and again, on a short list of matrices.
Reajustees == {M3, M4, E0}

NextReajuste ==
    \/ \E X \in Reajustees : Ajuster(X)
    \/ \E X \in Reajustees : Transformer(X)
    \/ \E X \in Reajustees : AjusterTransformer(X)
    \/ ValeursPropres
    \/ Loadings
    \/ \E k \in {None, 1} : Communalites(k)
    \/ CritereKaiser
    \/ \E seuil \in {Rat(4, 5)} : SeuilVariance(seuil)
    \/ \E n_top \in {MaxTop} : Interpreter(n_top)

SpecReajuste == Init /\ [][NextReajuste]_vars

\* One object fitted on a matrix of more than MaxInterpretees variables, as
\* the 21 of executer_acp are.
NextGrande ==
    \/ \E X \in Grandes : Ajuster(X)
    \/ \E X \in Grandes : Transformer(X)
    \/ \E X \in Grandes : AjusterTransformer(X)
    \/ ValeursPropres
    \/ Loadings
    \/ \E k \in {None} : Communalites(k)
    \/ CritereKaiser
    \/ \E seuil \in Seuils : SeuilVariance(seuil)
    \/ \E n_top \in {0, 1} : Interpreter(n_top)

SpecGrande == Init /\ [][NextGrande]_vars

(***************************************************************************)
(* Two threads, each in a call of ajuster_transformer(X): the call is      *)
(* self.ajuster(X) and then self.transformer(X), and the other thread may  *)
(* run between the two.  The second thread calls on the same object as     *)
(* the first (objet 1) or on an object of its own (objet 2).               *)
(***************************************************************************)
Concurrentes == {M3, M4, M5, E0}

Requete(X, objet) == [X |-> X, objet |-> objet, pc |-> "ajuster", ret |-> NoValue]

InitConcurrent ==
    /\ build \in Builds
    /\ n_composantes \in NComposantes
    /\ pca = NoPCA
    /\ noms_variables = << >>
    /\ resultats = ObjetNeuf.resultats
    /\ ajustement = [X |-> NoFrame, err |-> "jamais"]
    /\ ret = Return("__init__", NoValue, NoValue)
    /\ autre = ObjetNeuf
    /\ requetes \in {<<Requete(X1, 1), Requete(X2, objet)>> :
                        X1 \in Concurrentes, X2 \in Concurrentes, objet \in {1, 2}}

\* Every thread calls on the first object.
ObjetCommun(i) == 1

\* The object thread i calls on.
ObjetDe(i) == requetes[i].objet

\* self.pca, read by thread i.
PcaDe(i) == IF ObjetDe(i) = 1 THEN pca ELSE autre.pca

\* self.ajuster(X) in thread i: the assignments to self.
AjusterObjet(i, X) ==
    IF ObjetDe(i) = 1
    THEN /\ noms_variables' = X.cols
         /\ pca' = AjusterPca(X)
         /\ ajustement' = [X |-> X, err |-> IF FitRaises(X, n_composantes)
                                            THEN "ValueError" ELSE "none"]
         /\ UNCHANGED autre
    ELSE /\ autre' = [autre EXCEPT !.noms_variables = X.cols,
                                   !.pca = AjusterPca(X)]
         /\ UNCHANGED <<pca, noms_variables, ajustement>>

\* Thread i runs self.ajuster(X); an exception ends its call.
ReqAjuster(i) ==
    /\ requetes[i].pc = "ajuster"
    /\ AjusterObjet(i, requetes[i].X)
    /\ requetes' = [requetes EXCEPT ![i] =
          IF FitRaises(requetes[i].X, n_composantes)
          THEN [@ EXCEPT !.pc = "fini",
                         !.ret = Raise("ajuster_transformer", requetes[i].X,
                                      "ValueError")]
          ELSE [@ EXCEPT !.pc = "transformer"]]
    /\ UNCHANGED <<build, n_composantes, resultats, ret>>

\* Thread i runs return self.transformer(X).
ReqTransformer(i) ==
    /\ requetes[i].pc = "transformer"
    /\ requetes' = [requetes EXCEPT ![i] =
          [@ EXCEPT !.pc = "fini",
                    !.ret = TransformerRet("ajuster_transformer", PcaDe(i),
                                           requetes[i].X)]]
    /\ UNCHANGED <<build, n_composantes, pca, noms_variables, resultats,
                   ajustement, ret, autre>>

NextConcurrent ==
    \/ \E i \in 1..2 : ReqAjuster(i)
    \/ \E i \in 1..2 : ReqTransformer(i)

SpecConcurrent == InitConcurrent /\ [][NextConcurrent]_vars

(***************************************************************************)
(* The claims.                                                             *)
(***************************************************************************)
\* The share of variance of the first k components of the fitted estimator.
Cumul(k) == RSum(SubSeq(pca.explained_variance_ratio_, 1, k))

\* Some count of fitted components reaches the share tau.
Atteignable(tau) == \E k \in 1..pca.n_components_ : RGe(Cumul(k), tau)

\* The estimator is fitted and its variances are numbers (not NaN).
VariancesFinies ==
    /\ pca.etat = "fitted"
    /\ \A k \in 1..pca.n_components_ : ~IsNaN(pca.explained_variance_[k])

\* The eigenvalues 2.4, 0.4, 0.2 of the example of the specification.
EigenExemple == <<Rat(12, 5), Rat(2, 5), Rat(1, 5)>>

C2_SeuilInatteignableEchoue ==
    (ret.op = "seuil_variance" /\ VariancesFinies /\ ~Atteignable(ret.arg)) =>
        (ret.err # "none" /\ ret.val = NoValue)

\* The eigenvalues strictly greater than 1, counted on their fractions.
PlusGrandQueUn(ev) == {k \in 1..Len(ev) : ev[k][2] > 0 /\ ev[k][1] > ev[k][2]}

\* C3: critere_kaiser returns the number of fitted eigenvalues strictly
\* greater than 1; an eigenvalue equal to 1 is not counted, and the result
\* is between 0 and K.
C3_KaiserStrict ==
    (ret.op = "critere_kaiser" /\ pca.etat = "fitted") =>
        /\ ret.err = "none"
        /\ ret.val = Cardinality(PlusGrandQueUn(pca.explained_variance_))
        /\ ret.val \in 0..pca.n_components_

\* critere_kaiser has returned on a fit one of whose eigenvalues is exactly 1.
C3_Witness ==
    /\ ret.op = "critere_kaiser" /\ ret.err = "none" /\ pca.etat = "fitted"
    /\ \E k \in 1..pca.n_components_ : pca.explained_variance_[k] = One
    /\ ret.val = 1

\* The position of a variable in the columns of the fitted matrix.
RangVariable(nom) ==
    CHOOSE j \in 1..Len(noms_variables) : noms_variables[j] = nom

\* The loading of variable j on component i, from the fitted estimator.
LoadingDe(j, i) == Loading(pca.components_[i], j, pca.explained_variance_[i])

\* Entry a of a dominant-variable list comes before entry b: a larger
\* absolute loading, or an equal one and a lower column index.
Avant(a, b) ==
    \/ RGt(RAbs(a[2]), RAbs(b[2]))
    \/ (RAbs(a[2]) = RAbs(b[2]) /\ RangVariable(a[1]) < RangVariable(b[1]))

\* C4: for every component the list of dominant variables is in descending
\* order of absolute loading, each with its signed loading, and of two
\* variables of equal absolute loading the one of lower column index comes
\* first.
C4_InterpreterOrdonne ==
    (ret.op = "interpreter" /\ ret.err = "none" /\ VariancesFinies) =>
        \A i \in 1..Len(ret.val) :
            \A r \in 1..Len(ret.val[i].variables_dominantes) :
                /\ ret.val[i].variables_dominantes[r][2] =
                       LoadingDe(RangVariable(ret.val[i].variables_dominantes[r][1]), i)
                /\ \A t \in (r + 1)..Len(ret.val[i].variables_dominantes) :
                       Avant(ret.val[i].variables_dominantes[r],
                             ret.val[i].variables_dominantes[t])

\* C5: interpreter(top_n) returns lists of exactly top_n entries when
\* top_n <= N, and fails, returning no list, when top_n > N; it never
\* returns a shorter list.
C5_InterpreterLongueur ==
    (ret.op = "interpreter" /\ VariancesFinies) =>
        IF ret.arg <= pca.n_features_in_
        THEN /\ ret.err = "none"
             /\ \A i \in 1..Len(ret.val) :
                    Len(ret.val[i].variables_dominantes) = ret.arg
        ELSE ret.err # "none" /\ ret.val = NoValue

\* The matrices the specification has ajuster refuse.
Invalide(X, k_requested) ==
    \/ NRows(X) < 2
    \/ ~IsFinite(X)
    \/ (k_requested # None /\ k_requested > Min(NRows(X), NCols(X)))

Aval == {"transformer", "valeurs_propres", "loadings", "communalites",
         "critere_kaiser", "seuil_variance", "interpreter"}

\* C6: ajuster on a matrix of fewer than 2 rows, with a non-finite value, or
\* with n_composantes above min(observations, variables) fails and leaves no
\* fitted estimator, and afterwards no downstream operation returns a result.
C6_AjusterInvalideEchoue ==
    (ajustement.err # "jamais" /\ Invalide(ajustement.X, n_composantes)) =>
        /\ ajustement.err # "none"
        /\ pca.etat # "fitted"
        /\ ret.op \in Aval => ret.err # "none"

\* C7 (as first stated): a fit leaves the decomposition the object held
\* (components, eigenvalues, variable names) as it was before that fit.
C7_DecompositionInchangee ==
    [][(pca.etat = "fitted" /\ ret'.op \in {"ajuster", "ajuster_transformer"}) =>
          (pca' = pca /\ noms_variables' = noms_variables)]_vars

\* C7 (amended): the estimator and the variable names of the object change
\* only in a call of ajuster or ajuster_transformer; transformer, the tables,
\* the retention rules and interpreter leave them as the last fit set them.
C7_SeulAjusterRemplace ==
    [][(pca' # pca \/ noms_variables' # noms_variables) =>
          ret'.op \in {"ajuster", "ajuster_transformer"}]_vars

\* After two fits of the same object (the table of eigenvalues kept from the
\* first no longer has the size of the estimator), transformer has run.
C7_Witness ==
    /\ pca.etat = "fitted" /\ ret.op = "transformer" /\ ret.err = "none"
    /\ resultats.valeurs_propres # Absent
    /\ Len(resultats.valeurs_propres) # pca.n_components_

\* C8: transformer on a matrix whose number of columns differs from the
\* number of variables of the fit fails (ValueError) and returns no scores;
\* on a matrix of as many columns it returns a table of observations x K
\* scores.
C8_TransformerLargeur ==
    (ret.op = "transformer" /\ pca.etat = "fitted"
        /\ NRows(ret.arg) > 0 /\ IsFinite(ret.arg)) =>
        IF NCols(ret.arg) # pca.n_features_in_
        THEN ret.err = "ValueError" /\ ret.val = NoValue
        ELSE /\ ret.err = "none"
             /\ Len(ret.val.columns) = pca.n_components_
             /\ Len(ret.val.values) = NRows(ret.arg)
             /\ \A i \in 1..NRows(ret.arg) :
                    Len(ret.val.values[i]) = pca.n_components_

\* transformer has refused a matrix of 3 columns on a fit of 2 variables, or
\* one of 2 columns on a fit of 3.
C8_Witness ==
    /\ ret.op = "transformer" /\ pca.etat = "fitted"
    /\ NRows(ret.arg) > 0 /\ IsFinite(ret.arg)
    /\ NCols(ret.arg) # pca.n_features_in_
    /\ ret.err = "ValueError"

\* C9: with all K = N components kept, the communality of every variable of
\* a matrix standardized by standardiser_acp is 1.0 (and so within [0, 1]).
C9_CommunalitesUnitaires ==
    (ret.op = "communalites" /\ ret.err = "none" /\ pca.etat = "fitted"
        /\ ajustement.X \in Standardisees
        /\ pca.n_components_ = pca.n_features_in_) =>
        \A j \in 1..Len(ret.val) : ret.val[j].Communalite = One

\* The communality of variable j over the first k components, rounded as
\* communalites rounds.
CommunaliteSur(j, k) == NpRound(RSum([i \in 1..k |-> RAbs(LoadingDe(j, i))]), 4)

PlusGrandePositive(d) ==
    \E j \in 1..Len(d) :
        /\ d[j] > 0
        /\ \A i \in 1..Len(d) : Abs(d[i]) <= Abs(d[j])

\* C11: in the estimator every fit leaves, the entry of largest absolute
\* value of each component is positive.
C11_SigneFixe ==
    pca.etat = "fitted" =>
        \A k \in 1..pca.n_components_ : PlusGrandePositive(pca.components_[k])

CompteRegle(op, tau) ==
    IF op = "critere_kaiser"
    THEN Cardinality(PlusGrandQueUn(pca.explained_variance_))
    ELSE IF Atteignable(tau)
    THEN CHOOSE k \in 1..pca.n_components_ :
             /\ RGe(Cumul(k), tau)
             /\ \A l \in 1..(k - 1) : ~RGe(Cumul(l), tau)
    ELSE 1

\* C13: a call of critere_kaiser or seuil_variance leaves the estimator, the
\* variable names and the stored tables as they were, and the count it
\* returns is determined by the fit and the argument, so that a repeated
\* call returns the same count.
C13_ReglesPures ==
    [][ret'.op \in {"critere_kaiser", "seuil_variance"} =>
          /\ pca' = pca
          /\ noms_variables' = noms_variables
          /\ resultats' = resultats
          /\ pca.etat = "fitted" =>
                 (ret'.err = "none" /\ ret'.val = CompteRegle(ret'.op, ret'.arg))]_vars

\* seuil_variance has returned on an object that holds no stored table of
\* eigenvalues, after loadings were stored.
C13_Witness ==
    /\ ret.op = "seuil_variance" /\ ret.err = "none" /\ pca.etat = "fitted"
    /\ resultats.valeurs_propres = Absent
    /\ resultats.loadings # Absent

Tables == {"valeurs_propres", "loadings", "communalites", "interpreter"}

\* C14 (as first stated): a call of valeurs_propres, loadings, communalites
\* or interpreter changes no state of the analysis object.
C14_TablesSansEffet ==
    [][ret'.op \in Tables =>
          (pca' = pca /\ noms_variables' = noms_variables
              /\ resultats' = resultats)]_vars

\* The table L of loadings is that of the estimator the object holds now.
LoadingsActuels(L) ==
    /\ L # Absent
    /\ L.index = noms_variables
    /\ Len(L.values) = pca.n_features_in_
    /\ \A j \in 1..Len(L.values) :
          /\ Len(L.values[j]) = pca.n_components_
          /\ \A k \in 1..pca.n_components_ : L.values[j][k] = LoadingDe(j, k)

\* The table of eigenvalues is that of the estimator the object holds now.
ValeursPropresActuelles(df) ==
    /\ Len(df) = pca.n_components_
    /\ \A k \in 1..Len(df) :
          df[k].Valeur_Propre = NpRound(pca.explained_variance_[k], 4)

\* C14 (amended): a call of valeurs_propres, loadings, communalites or
\* interpreter leaves the estimator and the variable names as they were and
\* recomputes its table from the estimator, whatever is stored; a call that
\* returns stores what it computed in resultats (valeurs_propres and
\* loadings their table, communalites its table and the loadings,
\* interpreter the loadings) and changes no other key; a call that fails
\* changes nothing.
C14_TablesRecalculees ==
    [][ret'.op \in Tables =>
          /\ pca' = pca
          /\ noms_variables' = noms_variables
          /\ ret'.err # "none" => resultats' = resultats
          /\ (ret'.err = "none" /\ ret'.op = "valeurs_propres") =>
                 /\ ValeursPropresActuelles(ret'.val)
                 /\ resultats' = [resultats EXCEPT !.valeurs_propres = ret'.val]
          /\ (ret'.err = "none" /\ ret'.op = "loadings") =>
                 /\ LoadingsActuels(ret'.val)
                 /\ resultats' = [resultats EXCEPT !.loadings = ret'.val]
          /\ (ret'.err = "none" /\ ret'.op = "communalites") =>
                 /\ LoadingsActuels(resultats'.loadings)
                 /\ resultats' = [resultats EXCEPT
                                    !.loadings = resultats'.loadings,
                                    !.communalites = ret'.val]
          /\ (ret'.err = "none" /\ ret'.op = "interpreter") =>
                 /\ LoadingsActuels(resultats'.loadings)
                 /\ resultats' = [resultats EXCEPT
                                    !.loadings = resultats'.loadings]]_vars

\* loadings has returned the table of the fit of M3 on an object that still
\* stores the communalities of an earlier fit of M4.
C14_Witness ==
    /\ ret.op = "loadings" /\ ret.err = "none" /\ ajustement.X = M3
    /\ LoadingsActuels(ret.val) /\ resultats.loadings = ret.val
    /\ resultats.communalites # Absent /\ Len(resultats.communalites) = 2

\* What a call of ajuster_transformer(X) alone on a new object returns: the
\* scores of the rows of X on the components of the fit of X.
ScoresPropres(X) ==
    [r \in 1..NRows(X) |->
        [k \in 1..FitTable[X][n_composantes][build].n_components_ |->
            Score(FitTable[X][n_composantes][build], X.rows[r], k)]]

\* The request has got what its call owes it: the scores of its own matrix
\* on its own fit, or the ValueError of its own fit.
Servie(rq) ==
    IF FitRaises(rq.X, n_composantes)
    THEN rq.ret.err = "ValueError" /\ rq.ret.val = NoValue
    ELSE rq.ret.err = "none" /\ rq.ret.val.values = ScoresPropres(rq.X)

\* C15 (as first stated): in every interleaving of two ajuster_transformer
\* calls each call gets the scores of its own matrix on the components
\* fitted on its own matrix.
C15_SansInterference ==
    \A i \in 1..Len(requetes) : requetes[i].pc = "fini" => Servie(requetes[i])

\* C15 (amended): in every interleaving of two ajuster_transformer calls made
\* on two AnalyseACP objects, each call gets the scores of its own matrix on
\* the components fitted on its own matrix.
C15_ObjetsSepares ==
    (Len(requetes) = 2 /\ requetes[1].objet # requetes[2].objet) =>
        \A i \in 1..2 : requetes[i].pc = "fini" => Servie(requetes[i])

\* Two calls on two objects, on M3 and on M4, have both returned scores.
C15_Witness ==
    /\ Len(requetes) = 2 /\ requetes[1].objet # requetes[2].objet
    /\ requetes[1].X = M3 /\ requetes[2].X = M4
    /\ \A i \in 1..2 : requetes[i].pc = "fini" /\ requetes[i].ret.err = "none"
    /\ pca.n_features_in_ = 3 /\ autre.pca.n_features_in_ = 2

\* The table of communalities is that of the estimator the object holds now.
CommunalitesActuelles(df) ==
    /\ Len(df) = pca.n_features_in_
    /\ \A j \in 1..Len(df) :
          /\ df[j].Variable = noms_variables[j]
          /\ df[j].Communalite = CommunaliteSur(j, pca.n_components_)

\* C16: every table held in resultats was derived from the estimator the
\* object holds now; no table of an earlier fit is left after a later
\* ajuster.
C16_ResultatsDuModeleActuel ==
    /\ resultats.valeurs_propres # Absent =>
          (pca.etat = "fitted"
              /\ ValeursPropresActuelles(resultats.valeurs_propres))
    /\ resultats.loadings # Absent =>
          (pca.etat = "fitted" /\ LoadingsActuels(resultats.loadings))
    /\ resultats.communalites # Absent =>
          (pca.etat = "fitted"
              /\ CommunalitesActuelles(resultats.communalites))

\* Entry i of an interpretation is that of component i: its name, its share
\* of variance in percent, and variables with their loadings on it.
EntreeDe(e, i) ==
    /\ e.cp = <<"CP", i>>
    /\ e.variance_expliquee = RMul(pca.explained_variance_ratio_[i], Int2R(100))
    /\ \A r \in 1..Len(e.variables_dominantes) :
          e.variables_dominantes[r][2] =
              LoadingDe(RangVariable(e.variables_dominantes[r][1]), i)

\* C17 (as first stated): interpreter returns one entry per fitted
\* component, whatever their number K, the i-th that of component i with
\* the i-th share of explained variance.
C17_UneEntreeParComposante ==
    (ret.op = "interpreter" /\ pca.etat = "fitted") =>
        /\ ret.err = "none"
        /\ Len(ret.val) = pca.n_components_
        /\ \A i \in 1..Len(ret.val) : EntreeDe(ret.val[i], i)

\* C17 (amended): interpreter returns one entry for each of the first five
\* fitted components (for all K of them when K <= 5), the i-th that of
\* component i with the i-th share of explained variance.
C17_CinqPremieresComposantes ==
    (ret.op = "interpreter" /\ pca.etat = "fitted") =>
        /\ ret.err = "none"
        /\ Len(ret.val) = (IF pca.n_components_ <= 5 THEN pca.n_components_ ELSE 5)
        /\ \A i \in 1..Len(ret.val) : EntreeDe(ret.val[i], i)

\* interpreter has returned five entries on a fit of six components.
C17_Witness ==
    /\ ret.op = "interpreter" /\ ret.err = "none" /\ ret.arg = 1
    /\ pca.etat = "fitted" /\ pca.n_components_ = 6
    /\ Len(ret.val) = 5
    /\ ret.val[5].variables_dominantes = << <<"E", Rat(32, 7)>> >>

=============================================================================
